---- MODULE Spec2Model ----
(***************************************************************************)
(* Garden planner: the plant-placement engine (PlantPlacer) and the part   *)
(* of the application (GardenPlanner) that keeps a bed's plant groups,     *)
(* region boundaries and positions.                                        *)
(*                                                                         *)
(* Numbers.  The code computes with JavaScript numbers; the model computes *)
(* exactly, in fixed point.  A length is an integer count of 1/Scale       *)
(* inches; a coordinate that involves sqrt(3) (the row pitch of the        *)
(* hexagonal pattern) is a pair (y, yi) standing for (y + yi*sqrt(3)) /    *)
(* Scale.  A fraction of a bed (a region boundary) is an integer count of  *)
(* 1/Den.  Scale is a multiple of 4*Den so that every halving and every    *)
(* product length*fraction the code performs is exact.                     *)
(***************************************************************************)
EXTENDS Integers, Sequences, FiniteSets, TLC

VARIABLES
    beds,               \* this.beds: sequence of bed records
    selectedBed,        \* this.selectedBed: index into beds, 0 for null
    editingPlantIndex,  \* this.editingPlantIndex: group index (0-based), -1 for null
    isDraggingDivider,  \* this.isDraggingDivider
    draggedDividerIndex,\* this.draggedDividerIndex: boundary index (0-based), -1 for null
    isResizing,         \* this.isResizing
    resizeHandle,       \* this.resizeHandle: "nw", ..., "radius", "none" for null
    bedDragStart,       \* this.bedDragStart: the bed's size when the drag began
    bedDetailMode,      \* this.bedDetailMode: a single bed is shown in detail
    lastOp,             \* the name of the handler that ran last
    steps,              \* the number of handlers that have run
    args,               \* inputs of a PlantPlacer call
    call,               \* the PlantPlacer function that was called, with its extra inputs
    result              \* the value the call returned

resizeVars == <<isResizing, resizeHandle, bedDragStart>>

viewVars == <<bedDetailMode>>

vars == <<beds, selectedBed, editingPlantIndex, isDraggingDivider,
          draggedDividerIndex, resizeVars, viewVars, lastOp, steps, args, call, result>>

appVars == <<beds, selectedBed, editingPlantIndex, isDraggingDivider,
             draggedDividerIndex, resizeVars, viewVars, lastOp, steps>>

placerVars == <<args, call, result>>

----------------------------------------------------------------------------
(* Fixed-point arithmetic *)

Den == 2 * 2 * 3 * 5

Scale == 4 * Den

L(n) == n * Scale

Sgn(n) == IF n > 0 THEN 1 ELSE IF n < 0 THEN -1 ELSE 0

Min(a, b) == IF a < b THEN a ELSE b

Max(a, b) == IF a > b THEN a ELSE b

Abs(a) == IF a < 0 THEN -a ELSE a

\* Math.floor(a / b) for b > 0
Floor(a, b) == a \div b

\* sign of a - b*sqrt(3) for a, b >= 0, by the continued fraction of sqrt(3)
RECURSIVE CmpSqrt3(_, _)
CmpSqrt3(a, b) ==
    IF b = 0 THEN Sgn(a)
    ELSE IF a >= 2 * b THEN 1
    ELSE IF a < b THEN -1
    ELSE -CmpSqrt3(2 * b - (a - b), a - b)

\* sign of p + q*sqrt(3)
SignSqrt3(p, q) ==
    IF q = 0 THEN Sgn(p)
    ELSE IF p = 0 THEN Sgn(q)
    ELSE IF Sgn(p) = Sgn(q) THEN Sgn(p)
    ELSE IF p > 0 THEN CmpSqrt3(p, -q)
    ELSE -CmpSqrt3(-p, q)

\* Math.floor(len / (spacing * Math.sqrt(3) / 2)) for spacing > 0
HexFloor(len, spacing) ==
    IF len < 0 THEN -1
    ELSE CHOOSE k \in 0..((2 * len) \div spacing) :
            /\ CmpSqrt3(2 * len, k * spacing) >= 0
            /\ CmpSqrt3(2 * len, (k + 1) * spacing) < 0

Point(px, py, pyi) == [x |-> px, y |-> py, yi |-> pyi]

\* sign of (distance between a and b) - d, for a length d
CmpDistance(a, b, d) ==
    IF d < 0 THEN 1
    ELSE LET dx == a.x - b.x
             dy == a.y - b.y
             di == a.yi - b.yi
         IN  SignSqrt3(dx * dx + dy * dy + 3 * di * di - d * d, 2 * dy * di)

Origin == Point(0, 0, 0)

\* concatenation of row[0], ..., row[n-1]
RECURSIVE ConcatRows(_, _)
ConcatRows(row, n) ==
    IF n <= 0 THEN <<>> ELSE ConcatRows(row, n - 1) \o row[n - 1]

\* Array.prototype.slice(0, n) for an integer n
Slice(s, n) ==
    LET e == IF n < 0 THEN Max(Len(s) + n, 0) ELSE Min(n, Len(s))
    IN  SubSeq(s, 1, e)

----------------------------------------------------------------------------
(* PlantPlacer: pattern generators and shape constrainers *)

\* gridPattern with one column more than fits: cols = floor(width / spacing) + 1
gridPatternExtraColumn(width, height, spacing) ==
    LET cols == Floor(width, spacing) + 1
        rows == Floor(height, spacing)
        startX == -(width \div 2) + spacing \div 2
        startY == -(height \div 2) + spacing \div 2
    IN  IF rows <= 0 \/ cols <= 0 THEN <<>>
        ELSE [k \in 1..(rows * cols) |->
                Point(startX + ((k - 1) % cols) * spacing,
                      startY + ((k - 1) \div cols) * spacing, 0)]

\* gridPattern emitting column by column instead of row by row
gridPatternColumnMajor(width, height, spacing) ==
    LET cols == Floor(width, spacing)
        rows == Floor(height, spacing)
        startX == -(width \div 2) + spacing \div 2
        startY == -(height \div 2) + spacing \div 2
    IN  IF rows <= 0 \/ cols <= 0 THEN <<>>
        ELSE [k \in 1..(rows * cols) |->
                Point(startX + ((k - 1) \div rows) * spacing,
                      startY + ((k - 1) % rows) * spacing, 0)]

\* gridPattern of the placement engine (sequential filling from top-left)
gridPattern(width, height, spacing) ==
    LET cols == Floor(width, spacing)
        rows == Floor(height, spacing)
        startX == -(width \div 2) + spacing \div 2
        startY == -(height \div 2) + spacing \div 2
    IN  IF rows <= 0 \/ cols <= 0 THEN <<>>
        ELSE [k \in 1..(rows * cols) |->
                Point(startX + ((k - 1) % cols) * spacing,
                      startY + ((k - 1) \div cols) * spacing, 0)]

\* hexagonalPattern of the placement engine
hexagonalPattern(width, height, spacing) ==
    LET rows == HexFloor(height, spacing)
        startY == -(height \div 2) + spacing \div 2
        startX == -(width \div 2) + spacing \div 2
        rowPoints(row) ==
            LET offset == (row % 2) * (spacing \div 2)
                cols == Floor(width - spacing \div 2 - offset, spacing)
            IN  IF cols <= 0 THEN <<>>
                ELSE [c \in 1..cols |->
                        Point(startX + (c - 1) * spacing + offset,
                              startY, row * (spacing \div 2))]
    IN  ConcatRows([row \in 0..(rows - 1) |-> rowPoints(row)], rows)

\* gridPattern of src/placement.js (centered grid)
gridPatternCentered(width, height, spacing) ==
    LET cols == Floor(width, spacing)
        rows == Floor(height, spacing)
        offsetX == (width - (cols - 1) * spacing) \div 2
        offsetY == (height - (rows - 1) * spacing) \div 2
    IN  IF rows <= 0 \/ cols <= 0 THEN <<>>
        ELSE [k \in 1..(rows * cols) |->
                Point(((k - 1) % cols) * spacing + offsetX - width \div 2,
                      ((k - 1) \div cols) * spacing + offsetY - height \div 2, 0)]

\* hexagonalPattern of src/placement.js (every row centered)
hexagonalPatternCentered(width, height, spacing) ==
    LET rows == HexFloor(height, spacing)
        rowPoints(row) ==
            LET offset == (row % 2) * (spacing \div 2)
                cols == Floor(width - offset, spacing)
                rowWidth == (cols - 1) * spacing + offset
                offsetX == (width - rowWidth) \div 2
            IN  IF cols <= 0 THEN <<>>
                ELSE [c \in 1..cols |->
                        Point((c - 1) * spacing + offset + offsetX - width \div 2,
                              -(height \div 2), row * (spacing \div 2))]
    IN  ConcatRows([row \in 0..(rows - 1) |-> rowPoints(row)], rows)

Files == {"engine", "placement.js"}

gridPatternOf(file, width, height, spacing) ==
    IF file = "engine" THEN gridPattern(width, height, spacing)
    ELSE gridPatternCentered(width, height, spacing)

hexagonalPatternOf(file, width, height, spacing) ==
    IF file = "engine" THEN hexagonalPattern(width, height, spacing)
    ELSE hexagonalPatternCentered(width, height, spacing)

placeInRectangle(file, width, height, spacing, pattern) ==
    IF pattern = "hexagonal" THEN hexagonalPatternOf(file, width, height, spacing)
    ELSE gridPatternOf(file, width, height, spacing)

\* the filter without the half-spacing margin: distance <= radius
withinCircle(pos, radius, spacing) ==
    CmpDistance(pos, Origin, radius) <= 0

\* the filter predicate of placeInCircle: distance <= radius - spacing / 2
withinCircleMargin(pos, radius, spacing) ==
    CmpDistance(pos, Origin, radius - spacing \div 2) <= 0

placeInCircle(file, radius, spacing, pattern) ==
    LET diameter == radius * 2
        positions == IF pattern = "hexagonal"
                     THEN hexagonalPatternOf(file, diameter, diameter, spacing)
                     ELSE gridPatternOf(file, diameter, diameter, spacing)
        keep(pos) == withinCircleMargin(pos, radius, spacing)
    IN  SelectSeq(positions, keep)

isInRectangle(point, width, height) ==
    /\ SignSqrt3(Abs(point.x) - width \div 2, 0) <= 0
    /\ SignSqrt3(point.y - height \div 2, point.yi) <= 0
    /\ SignSqrt3(-point.y - height \div 2, -point.yi) <= 0

isInCircle(point, radius) ==
    CmpDistance(point, Origin, radius) <= 0

----------------------------------------------------------------------------
(* PlantPlacer: fill methods *)

Methods == {"auto", "count", "rows", "percentage"}

\* placeSpecificCount that slices one candidate short
placeSpecificCountShort(file, width, height, spacing, count, pattern, isCircle, radius) ==
    LET allPositions ==
            IF isCircle THEN placeInCircle(file, radius, spacing, pattern)
            ELSE IF pattern = "hexagonal"
                 THEN hexagonalPatternOf(file, width, height, spacing)
                 ELSE gridPatternOf(file, width, height, spacing)
    IN  Slice(allPositions, Min(count, Len(allPositions)) - 1)

placeSpecificCount(file, width, height, spacing, count, pattern, isCircle, radius) ==
    LET allPositions ==
            IF isCircle THEN placeInCircle(file, radius, spacing, pattern)
            ELSE IF pattern = "hexagonal"
                 THEN hexagonalPatternOf(file, width, height, spacing)
                 ELSE gridPatternOf(file, width, height, spacing)
    IN  Slice(allPositions, Min(count, Len(allPositions)))

\* The (length, value) with length <= 120 and -100 <= value <= 100 for which
\* the double product length * (value / 100) falls just below the whole
\* number length * value / 100, because value / 100 was rounded.
RoundedBelow ==
    {<<25, -56>>, <<25, -28>>, <<50, -56>>, <<50, -28>>, <<50, -14>>, <<50, 58>>,
     <<75, -68>>, <<75, -56>>, <<75, -28>>, <<90, 70>>, <<100, -56>>, <<100, -55>>,
     <<100, -28>>, <<100, -14>>, <<100, -7>>, <<100, 29>>, <<100, 57>>, <<100, 58>>}

\* Math.floor(length * (value / 100))
percentageCount(length, value) ==
    Floor(length * value, 100) - (IF <<length, value>> \in RoundedBelow THEN 1 ELSE 0)

applyFillMethod(positions, method, value) ==
    IF method = "auto" THEN positions
    ELSE IF method = "count" THEN Slice(positions, Min(value, Len(positions)))
    ELSE IF method = "percentage"
         THEN Slice(positions, percentageCount(Len(positions), value))
    ELSE positions

\* placeInRows on a rectangle: numRows rows spread over the height.  (The
\* rings it makes on a circle have cos/sin coordinates and are outside the
\* fixed-point model.)
placeInRows(file, width, height, spacing, numRows, pattern) ==
    LET cols == Floor(width, spacing)
        \* engine: rows at startY + row * rowSpacing, rowSpacing = height / numRows
        rowSpacing == height \div numRows
        startX == -(width \div 2) + spacing \div 2
        startY == -(height \div 2) + rowSpacing \div 2
        \* placement.js: rows at rowSpacing * (row + 1) - height / 2,
        \* rowSpacing = height / (numRows + 1), columns centred
        rowSpacingCentered == height \div (numRows + 1)
        offsetX == (width - (cols - 1) * spacing) \div 2
    IN  IF numRows <= 0 \/ cols <= 0 THEN <<>>
        ELSE IF file = "engine"
        THEN [k \in 1..(numRows * cols) |->
                Point(startX + ((k - 1) % cols) * spacing,
                      startY + ((k - 1) \div cols) * rowSpacing, 0)]
        ELSE [k \in 1..(numRows * cols) |->
                Point(((k - 1) % cols) * spacing + offsetX - width \div 2,
                      rowSpacingCentered * ((k - 1) \div cols + 1) - height \div 2, 0)]

placeByPercentage(file, width, height, spacing, percentage, pattern, isCircle, radius) ==
    LET allPositions ==
            IF isCircle THEN placeInCircle(file, radius, spacing, pattern)
            ELSE IF pattern = "hexagonal"
                 THEN hexagonalPatternOf(file, width, height, spacing)
                 ELSE gridPatternOf(file, width, height, spacing)
        count == percentageCount(Len(allPositions), percentage)
    IN  Slice(allPositions, count)

\* the filter with only half the new plant's spacing as the distance
availableConflictHalfSpacing(candidate, existing, newPlantSpacing, existingSpacing) ==
    CmpDistance(candidate, existing, newPlantSpacing \div 2) < 0

\* the filter predicate of filterAvailablePositions: the minimum distance is
\* the average of the two spacings
availableConflict(candidate, existing, newPlantSpacing, existingSpacing) ==
    CmpDistance(candidate, existing, (newPlantSpacing + existingSpacing) \div 2) < 0

filterAvailablePositions(candidatePositions, existingPlantGroups, newPlantSpacing) ==
    LET available(candidate) ==
            \A g \in 1..Len(existingPlantGroups) :
                \A k \in 1..Len(existingPlantGroups[g].positions) :
                    ~availableConflict(candidate, existingPlantGroups[g].positions[k],
                                       newPlantSpacing, existingPlantGroups[g].spacing)
    IN  SelectSeq(candidatePositions, available)

calculateBedCapacity(file, width, height, spacing, pattern, isCircle, radius) ==
    Len(IF isCircle THEN placeInCircle(file, radius, spacing, pattern)
        ELSE IF pattern = "hexagonal"
             THEN hexagonalPatternOf(file, width, height, spacing)
             ELSE gridPatternOf(file, width, height, spacing))

RECURSIVE calculateUsedSpace(_)
calculateUsedSpace(existingPlantGroups) ==
    IF existingPlantGroups = <<>> THEN 0
    ELSE Len(Head(existingPlantGroups).positions) + calculateUsedSpace(Tail(existingPlantGroups))

\* placeWithAwareness; only the engine's auto branch knows a capacity
placeWithAwareness(file, width, height, spacing, pattern, method, value, isCircle, radius, existingPlantGroups) ==
    LET lattice == IF isCircle THEN placeInCircle(file, radius, spacing, pattern)
                   ELSE placeInRectangle(file, width, height, spacing, pattern)
        candidatePositions ==
            IF method = "rows" THEN placeInRows(file, width, height, spacing, value, pattern)
            ELSE lattice
        availablePositions ==
            filterAvailablePositions(candidatePositions, existingPlantGroups, spacing)
        remainingCapacity ==
            calculateBedCapacity(file, width, height, spacing, pattern, isCircle, radius)
                - calculateUsedSpace(existingPlantGroups)
    IN  IF method = "auto" /\ file = "engine"
        THEN Slice(availablePositions, Min(remainingCapacity, Len(availablePositions)))
        ELSE IF method = "count"
        THEN Slice(availablePositions, Min(value, Len(availablePositions)))
        ELSE IF method = "percentage"
        THEN Slice(availablePositions,
                   Min(percentageCount(Len(candidatePositions), value), Len(availablePositions)))
        ELSE availablePositions

----------------------------------------------------------------------------
(* PlantPlacer: region partitioning.  regionBounds = [start, end], both    *)
(* fractions counted in 1/Den.                                             *)

\* length * fraction
Times(len, frac) == (len * frac) \div Den

\* lo <= y <= hi for y = (p.y + p.yi*sqrt(3)), lo and hi lengths
yWithin(p, lo, hi) ==
    /\ SignSqrt3(p.y - lo, p.yi) >= 0
    /\ SignSqrt3(p.y - hi, p.yi) <= 0

generateGridInHorizontalStrip(width, stripHeight, spacing, stripTop, stripBottom, method, value) ==
    LET cols == Floor(width, spacing)
        rows0 == Floor(stripHeight, spacing)
        maxRows == IF method = "rows" /\ value > 0 THEN Min(value, rows0) ELSE rows0
        totalRowHeight == (maxRows - 1) * spacing
        totalColWidth == (cols - 1) * spacing
        startX == -(width \div 2) + (width - totalColWidth) \div 2
        startY == stripTop + (stripHeight - totalRowHeight) \div 2
        rowPoints(row) ==
            LET y == startY + row * spacing
            IN  IF y >= stripTop /\ y <= stripBottom /\ cols > 0
                THEN [c \in 1..cols |-> Point(startX + (c - 1) * spacing, y, 0)]
                ELSE <<>>
    IN  ConcatRows([row \in 0..(maxRows - 1) |-> rowPoints(row)], maxRows)

generateHexInHorizontalStrip(width, stripHeight, spacing, stripTop, stripBottom, method, value) ==
    LET rows0 == HexFloor(stripHeight, spacing)
        maxRows == IF method = "rows" /\ value > 0 THEN Min(value, rows0) ELSE rows0
        \* baseY = stripTop + (stripHeight - (maxRows - 1) * verticalSpacing) / 2
        baseY == stripTop + stripHeight \div 2
        baseYi == -((maxRows - 1) * (spacing \div 4))
        rowPoints(row) ==
            LET yi == baseYi + row * (spacing \div 2)
                offset == (row % 2) * (spacing \div 2)
                availableWidth == width - offset
                cols == Floor(availableWidth, spacing)
                totalColWidth == (cols - 1) * spacing + offset
                startX == -(width \div 2) + (width - totalColWidth) \div 2
            IN  IF yWithin(Point(0, baseY, yi), stripTop, stripBottom) /\ cols > 0
                THEN [c \in 1..cols |->
                        Point(startX + (c - 1) * spacing + offset, baseY, yi)]
                ELSE <<>>
    IN  ConcatRows([row \in 0..(maxRows - 1) |-> rowPoints(row)], maxRows)

generateGridInVerticalStrip(stripWidth, height, spacing, stripLeft, stripRight, method, value) ==
    LET cols0 == Floor(stripWidth, spacing)
        maxCols == IF method = "rows" /\ value > 0 THEN Min(value, cols0) ELSE cols0
        rows == Floor(height, spacing)
        totalColWidth == (maxCols - 1) * spacing
        totalRowHeight == (rows - 1) * spacing
        startX == stripLeft + (stripWidth - totalColWidth) \div 2
        startY == -(height \div 2) + (height - totalRowHeight) \div 2
        colPoints(col) ==
            LET x == startX + col * spacing
            IN  IF x >= stripLeft /\ x <= stripRight /\ rows > 0
                THEN [r \in 1..rows |-> Point(x, startY + (r - 1) * spacing, 0)]
                ELSE <<>>
    IN  ConcatRows([col \in 0..(maxCols - 1) |-> colPoints(col)], maxCols)

generateHexInVerticalStrip(stripWidth, height, spacing, stripLeft, stripRight, method, value) ==
    LET rows == HexFloor(height, spacing)
        \* baseY = -height / 2 + (height - (rows - 1) * verticalSpacing) / 2
        baseYi == -((rows - 1) * (spacing \div 4))
        rowPoints(row) ==
            LET yi == baseYi + row * (spacing \div 2)
                offset == (row % 2) * (spacing \div 2)
                availableWidth == stripWidth - offset
                cols0 == Floor(availableWidth, spacing)
                maxCols == IF method = "rows" /\ value > 0 /\ row = 0
                           THEN Min(value, cols0) ELSE cols0
                totalColWidth == (maxCols - 1) * spacing + offset
                startX == stripLeft + (stripWidth - totalColWidth) \div 2
                inStrip(pt) == pt.x >= stripLeft /\ pt.x <= stripRight
            IN  IF maxCols > 0
                THEN SelectSeq([c \in 1..maxCols |->
                                  Point(startX + (c - 1) * spacing + offset, 0, yi)],
                               inStrip)
                ELSE <<>>
    IN  ConcatRows([row \in 0..(rows - 1) |-> rowPoints(row)], rows)

\* hexPositions.length > gridPositions.length ? hexPositions : gridPositions
morePlants(hexPositions, gridPositions) ==
    IF Len(hexPositions) > Len(gridPositions) THEN hexPositions ELSE gridPositions

\* placeInHorizontalRegion with the strip measured from the top of the bed
\* instead of from regionBounds.start
placeInHorizontalRegionFromTop(width, height, spacing, regionBounds) ==
    LET stripHeight == Times(height, regionBounds.end - regionBounds.start)
        stripTop == -(height \div 2)
        stripBottom == stripTop + stripHeight
    IN  morePlants(
            generateHexInHorizontalStrip(width, stripHeight, spacing, stripTop, stripBottom, "auto", 0),
            generateGridInHorizontalStrip(width, stripHeight, spacing, stripTop, stripBottom, "auto", 0))

placeInHorizontalRegion(width, height, spacing, regionBounds) ==
    LET stripHeight == Times(height, regionBounds.end - regionBounds.start)
        stripTop == -(height \div 2) + Times(height, regionBounds.start)
        stripBottom == stripTop + stripHeight
    IN  morePlants(
            generateHexInHorizontalStrip(width, stripHeight, spacing, stripTop, stripBottom, "auto", 0),
            generateGridInHorizontalStrip(width, stripHeight, spacing, stripTop, stripBottom, "auto", 0))

placeInVerticalRegion(width, height, spacing, regionBounds) ==
    LET stripWidth == Times(width, regionBounds.end - regionBounds.start)
        stripLeft == -(width \div 2) + Times(width, regionBounds.start)
        stripRight == stripLeft + stripWidth
    IN  morePlants(
            generateHexInVerticalStrip(stripWidth, height, spacing, stripLeft, stripRight, "auto", 0),
            generateGridInVerticalStrip(stripWidth, height, spacing, stripLeft, stripRight, "auto", 0))

RECURSIVE GCD(_, _)
GCD(a, b) == IF b = 0 THEN a ELSE GCD(b, a % b)

\* Math.floor(Math.PI * a / b) for a >= 0, b > 0: 103993/33102 is the
\* convergent below pi whose successor 104348/33215 lies above it, so the
\* floor is exact for every reduced a/b with a < 20000
PiFloor(a, b) ==
    LET g == GCD(a, b)
    IN  (103993 * (a \div g)) \div (33102 * (b \div g))

\* A point of a ring is kept in polar form: radius rn/rd (a length), angle
\* 2*pi*i/n; the code stores (cos(angle)*radius, sin(angle)*radius).
PolarPoint(rn, rd, i, n) == [rn |-> rn, rd |-> rd, i |-> i, n |-> n]

placeInCircularRegion(radius, spacing, regionBounds) ==
    LET innerRadius == Times(radius, regionBounds.start)
        outerRadius == Times(radius, regionBounds.end)
        ringWidth == outerRadius - innerRadius
        numSubRings == Max(1, Floor(ringWidth, spacing))
        ringPoints(subRing) ==
            \* ringRadius = rn / rd
            LET rn == innerRadius * (numSubRings + 1) + ringWidth * (subRing + 1)
                rd == numSubRings + 1
                plantsInRing == Max(1, PiFloor(2 * rn, rd * spacing))
            IN  [k \in 1..plantsInRing |-> PolarPoint(rn, rd, k - 1, plantsInRing)]
    IN  ConcatRows([subRing \in 0..(numSubRings - 1) |-> ringPoints(subRing)], numSubRings)

placeInRegion(width, height, spacing, isCircle, radius, isHorizontal, regionBounds) ==
    IF isCircle THEN placeInCircularRegion(radius, spacing, regionBounds)
    ELSE IF isHorizontal THEN placeInHorizontalRegion(width, height, spacing, regionBounds)
    ELSE placeInVerticalRegion(width, height, spacing, regionBounds)

----------------------------------------------------------------------------
(* PlantPlacer: layered placement on a rectangular bed.  A layer is        *)
(* [spacing, positions].  (The circular layers compare cos/sin             *)
(* coordinates and are outside the fixed-point model.)                     *)

\* the filter predicate with the smaller of the two spacings as the distance
layerConflictMinSpacing(candidate, existing, newPlantSpacing, existingSpacing) ==
    CmpDistance(candidate, existing, Min(newPlantSpacing, existingSpacing)) < 0

\* the filter predicate of filterByInterLayerSpacing
layerConflict(candidate, existing, newPlantSpacing, existingSpacing) ==
    CmpDistance(candidate, existing, Max(newPlantSpacing, existingSpacing)) < 0

filterByInterLayerSpacing(candidatePositions, newPlantSpacing, previousLayers) ==
    LET available(candidate) ==
            \A l \in 1..Len(previousLayers) :
                \A k \in 1..Len(previousLayers[l].positions) :
                    ~layerConflict(candidate, previousLayers[l].positions[k],
                                   newPlantSpacing, previousLayers[l].spacing)
    IN  SelectSeq(candidatePositions, available)

placeInHorizontalLayerWithBounds(width, height, spacing, method, value, previousLayers, bounds) ==
    LET stripHeight == Times(height, bounds.end - bounds.start)
        stripTop == -(height \div 2) + Times(height, bounds.start)
        stripBottom == stripTop + stripHeight
        positions == morePlants(
            generateHexInHorizontalStrip(width, stripHeight, spacing, stripTop, stripBottom, method, value),
            generateGridInHorizontalStrip(width, stripHeight, spacing, stripTop, stripBottom, method, value))
        filteredPositions == filterByInterLayerSpacing(positions, spacing, previousLayers)
    IN  IF method = "rows" THEN filteredPositions
        ELSE applyFillMethod(filteredPositions, method, value)

placeInVerticalLayerWithBounds(width, height, spacing, method, value, previousLayers, bounds) ==
    LET stripWidth == Times(width, bounds.end - bounds.start)
        stripLeft == -(width \div 2) + Times(width, bounds.start)
        stripRight == stripLeft + stripWidth
        positions == morePlants(
            generateHexInVerticalStrip(stripWidth, height, spacing, stripLeft, stripRight, method, value),
            generateGridInVerticalStrip(stripWidth, height, spacing, stripLeft, stripRight, method, value))
        filteredPositions == filterByInterLayerSpacing(positions, spacing, previousLayers)
    IN  IF method = "rows" THEN filteredPositions
        ELSE applyFillMethod(filteredPositions, method, value)

placeInLayerWithBounds(width, height, spacing, method, value, isHorizontal, previousLayers, bounds) ==
    IF isHorizontal
    THEN placeInHorizontalLayerWithBounds(width, height, spacing, method, value, previousLayers, bounds)
    ELSE placeInVerticalLayerWithBounds(width, height, spacing, method, value, previousLayers, bounds)

placeInLayer(width, height, spacing, method, value, layerIndex, totalLayers, isHorizontal, previousLayers) ==
    LET bounds == [start |-> (Den * layerIndex) \div totalLayers,
                   end |-> (Den * (layerIndex + 1)) \div totalLayers]
    IN  placeInLayerWithBounds(width, height, spacing, method, value, isHorizontal,
                               previousLayers, bounds)

----------------------------------------------------------------------------
(* GardenPlanner: plant groups and region boundaries of a bed.             *)
(* A bed is [type, width, height, radius, plantGroups, hasRegionBoundaries,*)
(* regionBoundaries]; hasRegionBoundaries = FALSE stands for a null or     *)
(* undefined regionBoundaries.  A plant group is [spacing, quantity,       *)
(* maxQuantity, positions]; indices are 0-based as in the code.            *)

MinBedSize == 12

MinBedRadius == 6

Group(bed, index) == bed.plantGroups[index + 1]

\* initializeRegionBoundaries that keeps the boundaries the bed already has
\* and adds equal-division values only at the new indices
initializeRegionBoundariesKeeping(bed) ==
    LET numGroups == Len(bed.plantGroups)
        old == bed.regionBoundaries
    IN  IF numGroups <= 1
        THEN [bed EXCEPT !.hasRegionBoundaries = TRUE, !.regionBoundaries = <<>>]
        ELSE [bed EXCEPT !.hasRegionBoundaries = TRUE,
                         !.regionBoundaries =
                            [i \in 1..(numGroups - 1) |->
                                IF i <= Len(old) THEN old[i] ELSE (i * Den) \div numGroups]]

initializeRegionBoundaries(bed) ==
    LET numGroups == Len(bed.plantGroups)
    IN  IF numGroups <= 1
        THEN [bed EXCEPT !.hasRegionBoundaries = TRUE, !.regionBoundaries = <<>>]
        ELSE [bed EXCEPT !.hasRegionBoundaries = TRUE,
                         !.regionBoundaries =
                            [i \in 1..(numGroups - 1) |-> (i * Den) \div numGroups]]

\* getRegionBounds that starts every later region at the first boundary
getRegionBoundsFirstBoundary(bed, layerIndex) ==
    LET boundaries == bed.regionBoundaries
        numGroups == Len(bed.plantGroups)
    IN  IF numGroups = 1 THEN [start |-> 0, end |-> Den]
        ELSE [start |-> IF layerIndex = 0 THEN 0 ELSE boundaries[1],
              end |-> IF layerIndex = numGroups - 1 THEN Den ELSE boundaries[layerIndex + 1]]

getRegionBounds(bed, layerIndex) ==
    LET boundaries == bed.regionBoundaries
        numGroups == Len(bed.plantGroups)
    IN  IF numGroups = 1 THEN [start |-> 0, end |-> Den]
        ELSE [start |-> IF layerIndex = 0 THEN 0 ELSE boundaries[layerIndex],
              end |-> IF layerIndex = numGroups - 1 THEN Den ELSE boundaries[layerIndex + 1]]

\* the body of the forEach with the new positions pushed onto the old ones
recalculateGroupAppending(bed, group, layerIndex) ==
    LET isCircle == bed.type = "circle"
        isHorizontal == bed.width > bed.height
        regionBounds == getRegionBounds(bed, layerIndex)
        maxPositions == placeInRegion(bed.width, bed.height, group.spacing, isCircle,
                                      bed.radius, isHorizontal, regionBounds)
        maxQuantity == Len(maxPositions)
        quantity == IF group.quantity = 0 THEN maxQuantity ELSE group.quantity
        desiredQuantity == Min(quantity, maxQuantity)
    IN  [group EXCEPT !.maxQuantity = maxQuantity,
                      !.quantity = quantity,
                      !.positions = group.positions \o Slice(maxPositions, desiredQuantity)]

\* the body of the forEach with the positions of a rectangular bed filtered
\* against the groups before this one, as the layered placement does
recalculateGroupFiltering(bed, group, layerIndex) ==
    LET isCircle == bed.type = "circle"
        isHorizontal == bed.width > bed.height
        regionBounds == getRegionBounds(bed, layerIndex)
        regionPositions == placeInRegion(bed.width, bed.height, group.spacing, isCircle,
                                         bed.radius, isHorizontal, regionBounds)
        maxPositions == IF isCircle THEN regionPositions
                        ELSE filterByInterLayerSpacing(regionPositions, group.spacing,
                                                       SubSeq(bed.plantGroups, 1, layerIndex))
        maxQuantity == Len(maxPositions)
        quantity == IF group.quantity = 0 THEN maxQuantity ELSE group.quantity
        desiredQuantity == Min(quantity, maxQuantity)
    IN  [group EXCEPT !.maxQuantity = maxQuantity,
                      !.quantity = quantity,
                      !.positions = Slice(maxPositions, desiredQuantity)]

\* the body of the forEach of recalculateAllPlantPositions, for one group
recalculateGroup(bed, group, layerIndex) ==
    LET isCircle == bed.type = "circle"
        isHorizontal == bed.width > bed.height
        regionBounds == getRegionBounds(bed, layerIndex)
        maxPositions == placeInRegion(bed.width, bed.height, group.spacing, isCircle,
                                      bed.radius, isHorizontal, regionBounds)
        maxQuantity == Len(maxPositions)
        quantity == IF group.quantity = 0 THEN maxQuantity ELSE group.quantity
        desiredQuantity == Min(quantity, maxQuantity)
    IN  [group EXCEPT !.maxQuantity = maxQuantity,
                      !.quantity = quantity,
                      !.positions = Slice(maxPositions, desiredQuantity)]

recalculateAllPlantPositions(bed) ==
    LET b == IF \/ ~bed.hasRegionBoundaries
                \/ Len(bed.regionBoundaries) # Len(bed.plantGroups) - 1
             THEN initializeRegionBoundaries(bed) ELSE bed
    IN  [b EXCEPT !.plantGroups =
            [k \in 1..Len(b.plantGroups) |-> recalculateGroup(b, b.plantGroups[k], k - 1)]]

\* updateFillPreview: the plant count shown in the modal for the spacing
\* entered; editingPlantIndex = -1 stands for null (a new group)
updateFillPreview(bed, editingIndex, spacing) ==
    LET isCircle == bed.type = "circle"
        isHorizontal == bed.width > bed.height
        currentLayerCount == Len(bed.plantGroups)
        layerIndex == IF editingIndex # -1 THEN editingIndex ELSE currentLayerCount
        totalLayers == IF editingIndex # -1 THEN currentLayerCount ELSE currentLayerCount + 1
        regionBounds == [start |-> (Den * layerIndex) \div totalLayers,
                         end |-> (Den * (layerIndex + 1)) \div totalLayers]
    IN  Len(placeInRegion(bed.width, bed.height, spacing, isCircle, bed.radius,
                          isHorizontal, regionBounds))

\* Array.prototype.splice(index, 1)
RemoveAt(s, index) ==
    [k \in 1..(Len(s) - 1) |-> IF k <= index THEN s[k] ELSE s[k + 1]]

\* Array.prototype.splice(index, 0, e)
InsertAt(s, index, e) ==
    [k \in 1..(Len(s) + 1) |->
        IF k <= index THEN s[k] ELSE IF k = index + 1 THEN e ELSE s[k - 1]]

\* boundaries.sort((a, b) => a - b)
SortAscending(s) == SortSeq(s, LAMBDA a, b : a < b)

\* Math.max(0.1, Math.min(0.9, v))
ClampBoundary(v) == Max(Den \div 10, Min((9 * Den) \div 10, v))

----------------------------------------------------------------------------
(* GardenPlanner: the handlers.  Inputs are drawn from small sets.         *)

MaxGroups == 3

\* the number of handler invocations explored
MaxSteps == 8

BedSizes == {L(12), L(21)}

BedRadii == {L(12), L(18)}

GroupSpacings == {L(6), L(12)}

Quantities == {0, 2}

\* percentageDelta of one mouse move
DragDeltas == {-Den, Den \div 3, Den}

NewBed(type, width, height, radius) ==
    [type |-> type, width |-> width, height |-> height, radius |-> radius,
     plantGroups |-> <<>>, hasRegionBoundaries |-> FALSE, regionBoundaries |-> <<>>]

\* beds as loadFromStorage finds them: one bed, no plant yet
StoredBeds ==
    {<<NewBed("rectangle", w, h, 0)>> : w \in BedSizes, h \in BedSizes}
        \cup {<<NewBed("circle", 0, 0, r)>> : r \in BedRadii}

NoCall == [op |-> "none"]

\* this.bedDragStart = null
NoDragStart == [width |-> 0, height |-> 0, radius |-> 0]

NotResizing ==
    /\ isResizing = FALSE
    /\ resizeHandle = "none"
    /\ bedDragStart = NoDragStart

PlacerIdle ==
    /\ args = [shape |-> "none"]
    /\ call = NoCall
    /\ result = <<>>

Init ==
    /\ beds \in StoredBeds
    /\ selectedBed = 0
    /\ editingPlantIndex = -1
    /\ isDraggingDivider = FALSE
    /\ draggedDividerIndex = -1
    /\ NotResizing
    /\ bedDetailMode = FALSE
    /\ lastOp = "init"
    /\ steps = 0
    /\ PlacerIdle

SB == beds[selectedBed]

\* no modal is open and no mouse button is held
Idle == selectedBed # 0 /\ editingPlantIndex = -1 /\ ~isDraggingDivider /\ ~isResizing

\* a handler ran
Handled(op) ==
    /\ steps < MaxSteps
    /\ lastOp' = op
    /\ steps' = steps + 1

SetSelectedBed(bed, op) ==
    /\ beds' = [beds EXCEPT ![selectedBed] = bed]
    /\ Handled(op)

selectBedFromList ==
    /\ selectedBed = 0
    /\ \E k \in 1..Len(beds) : selectedBed' = k
    /\ Handled("selectBedFromList")
    /\ UNCHANGED <<beds, editingPlantIndex, isDraggingDivider, draggedDividerIndex, resizeVars, viewVars, placerVars>>

editPlantGroup ==
    /\ Idle
    /\ \E index \in 0..(Len(SB.plantGroups) - 1) :
        /\ editingPlantIndex' = index
        /\ Handled("editPlantGroup")
    /\ UNCHANGED <<beds, selectedBed, isDraggingDivider, draggedDividerIndex, resizeVars, viewVars, placerVars>>

closeAddPlantToBedModal ==
    /\ selectedBed # 0
    /\ editingPlantIndex # -1
    /\ editingPlantIndex' = -1
    /\ Handled("closeAddPlantToBedModal")
    /\ UNCHANGED <<beds, selectedBed, isDraggingDivider, draggedDividerIndex, resizeVars, viewVars, placerVars>>

saveAddPlantToBed ==
    /\ selectedBed # 0
    /\ ~isDraggingDivider
    /\ ~isResizing
    /\ \E spacing \in GroupSpacings :
        LET groups ==
                IF editingPlantIndex # -1
                THEN [SB.plantGroups EXCEPT ![editingPlantIndex + 1].spacing = spacing]
                ELSE Append(SB.plantGroups,
                            [spacing |-> spacing, maxQuantity |-> 0, quantity |-> 0,
                             positions |-> <<>>])
        IN  /\ editingPlantIndex = -1 => Len(SB.plantGroups) < MaxGroups
            /\ SetSelectedBed(recalculateAllPlantPositions([SB EXCEPT !.plantGroups = groups]),
                              "saveAddPlantToBed")
    /\ editingPlantIndex' = -1
    \* if (!this.bedDetailMode) this.enterBedDetailView()
    /\ bedDetailMode' = TRUE
    /\ UNCHANGED <<selectedBed, isDraggingDivider, draggedDividerIndex, resizeVars, placerVars>>

removePlantGroup ==
    /\ Idle
    /\ \E index \in 0..(Len(SB.plantGroups) - 1) :
        SetSelectedBed(
            recalculateAllPlantPositions(
                [SB EXCEPT !.plantGroups = RemoveAt(SB.plantGroups, index),
                           !.hasRegionBoundaries = FALSE,
                           !.regionBoundaries = <<>>]),
            "removePlantGroup")
    /\ UNCHANGED <<selectedBed, editingPlantIndex, isDraggingDivider, draggedDividerIndex, resizeVars, viewVars, placerVars>>

reorderPlantGroup ==
    /\ Idle
    /\ \E fromIndex, toIndex \in 0..(Len(SB.plantGroups) - 1) :
        /\ fromIndex # toIndex
        /\ SetSelectedBed(
            recalculateAllPlantPositions(
                [SB EXCEPT !.plantGroups =
                    InsertAt(RemoveAt(SB.plantGroups, fromIndex), toIndex,
                             SB.plantGroups[fromIndex + 1])]),
            "reorderPlantGroup")
    /\ UNCHANGED <<selectedBed, editingPlantIndex, isDraggingDivider, draggedDividerIndex, resizeVars, viewVars, placerVars>>

updatePlantQuantity ==
    /\ Idle
    /\ \E index \in 0..(Len(SB.plantGroups) - 1), newQuantity \in Quantities :
        SetSelectedBed(
            recalculateAllPlantPositions(
                [SB EXCEPT !.plantGroups[index + 1].quantity = newQuantity]),
            "updatePlantQuantity")
    /\ UNCHANGED <<selectedBed, editingPlantIndex, isDraggingDivider, draggedDividerIndex, resizeVars, viewVars, placerVars>>

\* handleMouseDown on a divider: getPlantDivider returns the first boundary
\* under the pointer
handleMouseDownDivider ==
    /\ Idle
    /\ Len(SB.plantGroups) > 1
    /\ \E index \in 0..(Len(SB.regionBoundaries) - 1) :
        /\ \A j \in 0..(index - 1) : SB.regionBoundaries[j + 1] # SB.regionBoundaries[index + 1]
        /\ draggedDividerIndex' = index
        /\ Handled("handleMouseDown")
    /\ isDraggingDivider' = TRUE
    /\ UNCHANGED <<beds, selectedBed, editingPlantIndex, resizeVars, viewVars, placerVars>>

\* handleMouseMove while a divider is dragged: handleDividerDrag
handleDividerDrag ==
    /\ selectedBed # 0
    /\ isDraggingDivider
    /\ draggedDividerIndex # -1
    /\ \E percentageDelta \in DragDeltas :
        LET b == IF SB.hasRegionBoundaries THEN SB ELSE initializeRegionBoundaries(SB)
            moved == [b.regionBoundaries EXCEPT ![draggedDividerIndex + 1] =
                        ClampBoundary(@ + percentageDelta)]
        IN  SetSelectedBed(
                recalculateAllPlantPositions(
                    [b EXCEPT !.regionBoundaries = SortAscending(moved)]),
                "handleDividerDrag")
    /\ UNCHANGED <<selectedBed, editingPlantIndex, isDraggingDivider, draggedDividerIndex, resizeVars, viewVars, placerVars>>

handleMouseUp ==
    /\ isDraggingDivider \/ isResizing
    /\ isDraggingDivider' = FALSE
    /\ draggedDividerIndex' = -1
    /\ isResizing' = FALSE
    /\ resizeHandle' = "none"
    /\ bedDragStart' = NoDragStart
    /\ Handled("handleMouseUp")
    /\ UNCHANGED <<beds, selectedBed, editingPlantIndex, viewVars, placerVars>>

\* the bedWidth handler without its call of recalculateAllPlantPositions
bedWidthInputNoRecalculation ==
    /\ Idle
    /\ SB.type = "rectangle"
    /\ \E value \in BedSizes :
        SetSelectedBed([SB EXCEPT !.width = Max(L(MinBedSize), value)], "bedWidthInput")
    /\ UNCHANGED <<selectedBed, editingPlantIndex, isDraggingDivider, draggedDividerIndex, resizeVars, viewVars, placerVars>>

\* the input handlers of the sidebar fields bedWidth, bedHeight, bedRadius
bedWidthInput ==
    /\ Idle
    /\ SB.type = "rectangle"
    /\ \E value \in BedSizes :
        SetSelectedBed(
            recalculateAllPlantPositions([SB EXCEPT !.width = Max(L(MinBedSize), value)]),
            "bedWidthInput")
    /\ UNCHANGED <<selectedBed, editingPlantIndex, isDraggingDivider, draggedDividerIndex, resizeVars, viewVars, placerVars>>

bedHeightInput ==
    /\ Idle
    /\ SB.type = "rectangle"
    /\ \E value \in BedSizes :
        SetSelectedBed(
            recalculateAllPlantPositions([SB EXCEPT !.height = Max(L(MinBedSize), value)]),
            "bedHeightInput")
    /\ UNCHANGED <<selectedBed, editingPlantIndex, isDraggingDivider, draggedDividerIndex, resizeVars, viewVars, placerVars>>

bedRadiusInput ==
    /\ Idle
    /\ SB.type = "circle"
    /\ \E value \in BedRadii :
        SetSelectedBed(
            recalculateAllPlantPositions([SB EXCEPT !.radius = Max(L(MinBedRadius), value)]),
            "bedRadiusInput")
    /\ UNCHANGED <<selectedBed, editingPlantIndex, isDraggingDivider, draggedDividerIndex, resizeVars, viewVars, placerVars>>

Next ==
    \/ selectBedFromList
    \/ editPlantGroup
    \/ closeAddPlantToBedModal
    \/ saveAddPlantToBed
    \/ removePlantGroup
    \/ reorderPlantGroup
    \/ updatePlantQuantity
    \/ handleMouseDownDivider
    \/ handleDividerDrag
    \/ handleMouseUp
    \/ bedWidthInput
    \/ bedHeightInput
    \/ bedRadiusInput

Spec == Init /\ [][Next]_vars

----------------------------------------------------------------------------
(* GardenPlanner: resizing a bed by dragging one of its handles *)

\* the handles getResizeHandle offers for the bed
ResizeHandles(bed) ==
    IF bed.type = "rectangle" THEN {"nw", "ne", "se", "sw", "n", "e", "s", "w"}
    ELSE {"radius"}

\* pointer displacements (dx, dy) since the mouse went down; their length
\* is a whole number of inches
ResizeMoves ==
    {[dx |-> L(3), dy |-> L(4)], [dx |-> -L(3), dy |-> -L(4)], [dx |-> -L(6), dy |-> 0]}

\* Math.sqrt(dx * dx + dy * dy)
Hypot(dx, dy) == CHOOSE d \in 0..(Abs(dx) + Abs(dy)) : d * d = dx * dx + dy * dy

resizeRectangle(bed, dx, dy) ==
    LET minSize == L(MinBedSize)
        wider == Max(minSize, bedDragStart.width + dx * 2)
        narrower == Max(minSize, bedDragStart.width - dx * 2)
        taller == Max(minSize, bedDragStart.height + dy * 2)
        shorter == Max(minSize, bedDragStart.height - dy * 2)
    IN  CASE resizeHandle = "se" -> [bed EXCEPT !.width = wider, !.height = taller]
          [] resizeHandle = "sw" -> [bed EXCEPT !.width = narrower, !.height = taller]
          [] resizeHandle = "ne" -> [bed EXCEPT !.width = wider, !.height = shorter]
          [] resizeHandle = "nw" -> [bed EXCEPT !.width = narrower, !.height = shorter]
          [] resizeHandle = "e" -> [bed EXCEPT !.width = wider]
          [] resizeHandle = "w" -> [bed EXCEPT !.width = narrower]
          [] resizeHandle = "s" -> [bed EXCEPT !.height = taller]
          [] resizeHandle = "n" -> [bed EXCEPT !.height = shorter]
          [] OTHER -> bed

resizeCircle(bed, dx, dy) ==
    LET distance == Hypot(dx, dy)
        direction == IF dx > 0 THEN 1 ELSE -1
    IN  [bed EXCEPT !.radius = Max(L(MinBedRadius), bedDragStart.radius + distance * direction)]

\* handleMouseDown on a resize handle of a bed (overview mode: the bed under
\* the pointer becomes the selected bed)
handleMouseDownResize ==
    /\ editingPlantIndex = -1
    /\ ~isDraggingDivider
    /\ ~isResizing
    /\ \E k \in 1..Len(beds) : \E handle \in ResizeHandles(beds[k]) :
        /\ selectedBed' = k
        /\ isResizing' = TRUE
        /\ resizeHandle' = handle
        /\ bedDragStart' = [width |-> beds[k].width, height |-> beds[k].height,
                            radius |-> beds[k].radius]
    /\ Handled("handleMouseDown")
    /\ UNCHANGED <<beds, editingPlantIndex, isDraggingDivider, draggedDividerIndex, viewVars, placerVars>>

\* handleMouseMove while a bed is resized
handleMouseMoveResize ==
    /\ isResizing
    /\ selectedBed # 0
    /\ \E move \in ResizeMoves :
        SetSelectedBed(IF SB.type = "rectangle" THEN resizeRectangle(SB, move.dx, move.dy)
                       ELSE resizeCircle(SB, move.dx, move.dy),
                       "handleMouseMove")
    /\ UNCHANGED <<selectedBed, editingPlantIndex, isDraggingDivider, draggedDividerIndex,
                   resizeVars, viewVars, placerVars>>

NextResize ==
    \/ selectBedFromList
    \/ saveAddPlantToBed
    \/ handleMouseDownResize
    \/ handleMouseMoveResize
    \/ handleMouseUp
    \/ bedWidthInput
    \/ bedHeightInput
    \/ bedRadiusInput

SpecResize == Init /\ [][NextResize]_vars

----------------------------------------------------------------------------
(* GardenPlanner: selecting beds, the detail view, deleting and clearing.  *)
(* A click on the canvas is resolved to the bed under the pointer (an      *)
(* index of beds) or to empty ground; confirm() is answered with OK.       *)

MaxBeds == 2

\* no modal is open and no mouse button is held
NoGesture == editingPlantIndex = -1 /\ ~isDraggingDivider /\ ~isResizing

\* handleMouseDown in overview mode on a bed, off its handles and dividers:
\* a double-click enters the detail view, a single click selects the bed
handleMouseDownBed ==
    /\ NoGesture
    /\ ~bedDetailMode
    /\ \E clickedBed \in 1..Len(beds), isDoubleClick \in BOOLEAN :
        /\ selectedBed' = clickedBed
        /\ bedDetailMode' = isDoubleClick
    /\ Handled("handleMouseDown")
    /\ UNCHANGED <<beds, editingPlantIndex, isDraggingDivider, draggedDividerIndex, resizeVars, placerVars>>

\* handleMouseDown in overview mode on empty ground: deselect
handleMouseDownEmpty ==
    /\ NoGesture
    /\ ~bedDetailMode
    /\ selectedBed # 0
    /\ selectedBed' = 0
    /\ Handled("handleMouseDown")
    /\ UNCHANGED <<beds, editingPlantIndex, isDraggingDivider, draggedDividerIndex, resizeVars, viewVars, placerVars>>

\* the click handler of editPlantsBtn
editPlantsBtn ==
    /\ NoGesture
    /\ selectedBed # 0
    /\ bedDetailMode' = TRUE
    /\ Handled("editPlantsBtn")
    /\ UNCHANGED <<beds, selectedBed, editingPlantIndex, isDraggingDivider, draggedDividerIndex, resizeVars, placerVars>>

\* the click handler of exitDetailView (its banner is shown in detail mode)
exitDetailView ==
    /\ NoGesture
    /\ bedDetailMode
    /\ bedDetailMode' = FALSE
    /\ Handled("exitDetailView")
    /\ UNCHANGED <<beds, selectedBed, editingPlantIndex, isDraggingDivider, draggedDividerIndex, resizeVars, placerVars>>

\* the click handler of deleteBed
deleteBed ==
    /\ NoGesture
    /\ selectedBed # 0
    /\ beds' = RemoveAt(beds, selectedBed - 1)
    /\ selectedBed' = 0
    /\ bedDetailMode' = FALSE
    /\ Handled("deleteBed")
    /\ UNCHANGED <<editingPlantIndex, isDraggingDivider, draggedDividerIndex, resizeVars, placerVars>>

\* the click handler of clearBtn
clearBtn ==
    /\ NoGesture
    /\ beds' = <<>>
    /\ selectedBed' = 0
    /\ Handled("clearBtn")
    /\ UNCHANGED <<editingPlantIndex, isDraggingDivider, draggedDividerIndex, resizeVars, viewVars, placerVars>>

saveNewBed ==
    /\ NoGesture
    /\ Len(beds) < MaxBeds
    /\ \E bed \in {NewBed("rectangle", L(12), L(21), 0), NewBed("circle", 0, 0, L(12))} :
        beds' = Append(beds, bed)
    /\ selectedBed' = Len(beds) + 1
    /\ Handled("saveNewBed")
    /\ UNCHANGED <<editingPlantIndex, isDraggingDivider, draggedDividerIndex, resizeVars, viewVars, placerVars>>

NextDetail ==
    \/ selectBedFromList
    \/ handleMouseDownBed
    \/ handleMouseDownEmpty
    \/ editPlantsBtn
    \/ exitDetailView
    \/ saveAddPlantToBed
    \/ deleteBed
    \/ clearBtn
    \/ saveNewBed

SpecDetail == Init /\ [][NextDetail]_vars

----------------------------------------------------------------------------
(* Calls of the PlantPlacer functions.  The inputs are lengths in steps of *)
(* half an inch.                                                            *)

MaxDim == 7

MaxSpacing == 3

MaxRadius == 4

HalfInch == Scale \div 2

Patterns == {"grid", "hexagonal"}

PlacerInputs ==
    [shape : {"rectangle"}, file : Files,
     width : {k * HalfInch : k \in 1..MaxDim},
     height : {k * HalfInch : k \in 1..MaxDim},
     spacing : {k * HalfInch : k \in 1..MaxSpacing}]
    \cup
    [shape : {"circle"}, file : Files,
     radius : {k * HalfInch : k \in 1..MaxRadius},
     spacing : {k * HalfInch : k \in 1..MaxSpacing}]

AppIdle ==
    /\ beds = <<>>
    /\ selectedBed = 0
    /\ editingPlantIndex = -1
    /\ isDraggingDivider = FALSE
    /\ draggedDividerIndex = -1
    /\ NotResizing
    /\ bedDetailMode = FALSE
    /\ lastOp = "init"
    /\ steps = 0

InitPlacer ==
    /\ AppIdle
    /\ args \in PlacerInputs
    /\ call = NoCall
    /\ result = <<>>

CallPlaceInRectangle ==
    /\ call = NoCall
    /\ args.shape = "rectangle"
    /\ \E pattern \in Patterns :
        /\ call' = [op |-> "placeInRectangle", pattern |-> pattern]
        /\ result' = placeInRectangle(args.file, args.width, args.height,
                                      args.spacing, pattern)
    /\ UNCHANGED <<args, appVars>>

CallPlaceInCircle ==
    /\ call = NoCall
    /\ args.shape = "circle"
    /\ \E pattern \in Patterns :
        /\ call' = [op |-> "placeInCircle", pattern |-> pattern]
        /\ result' = placeInCircle(args.file, args.radius, args.spacing, pattern)
    /\ UNCHANGED <<args, appVars>>

MaxCount == 5

\* counts and percentages asked for, the out-of-range ones among them
FillValues == (-2)..MaxCount

CallPlaceSpecificCount ==
    /\ call = NoCall
    /\ \E pattern \in Patterns, count \in FillValues :
        /\ call' = [op |-> "placeSpecificCount", pattern |-> pattern, count |-> count]
        /\ result' = IF args.shape = "circle"
                     THEN placeSpecificCount(args.file, 0, 0, args.spacing, count, pattern,
                                             TRUE, args.radius)
                     ELSE placeSpecificCount(args.file, args.width, args.height, args.spacing,
                                             count, pattern, FALSE, 0)
    /\ UNCHANGED <<args, appVars>>

\* method and value of a fill
Fills ==
    {[method |-> "auto", value |-> 0], [method |-> "count", value |-> 2],
     [method |-> "rows", value |-> 1], [method |-> "percentage", value |-> 50]}

\* applyFillMethod on the candidates of the bed
CallApplyFillMethod ==
    /\ call = NoCall
    /\ args.shape = "rectangle"
    /\ \E pattern \in Patterns, method \in Methods, value \in FillValues :
        /\ call' = [op |-> "applyFillMethod", pattern |-> pattern, method |-> method,
                    value |-> value]
        /\ result' = applyFillMethod(
                        placeInRectangle(args.file, args.width, args.height, args.spacing, pattern),
                        method, value)
    /\ UNCHANGED <<args, appVars>>

Fractions == {0, Den \div 10, Den \div 3, Den \div 2, (2 * Den) \div 3, (9 * Den) \div 10, Den}

RegionBoundsInputs ==
    {rb \in [start : Fractions, end : Fractions] : rb.start < rb.end}

CallPlaceInRegion ==
    /\ call = NoCall
    /\ args.shape = "rectangle"
    /\ args.file = "engine"
    /\ \E regionBounds \in RegionBoundsInputs :
        LET isHorizontal == args.width > args.height
        IN  /\ call' = [op |-> "placeInRegion", isHorizontal |-> isHorizontal,
                        regionBounds |-> regionBounds]
            /\ result' = placeInRegion(args.width, args.height, args.spacing, FALSE, 0,
                                       isHorizontal, regionBounds)
    /\ UNCHANGED <<args, appVars>>

CallPlaceInCircularRegion ==
    /\ call = NoCall
    /\ args.shape = "circle"
    /\ args.file = "engine"
    /\ \E regionBounds \in RegionBoundsInputs :
        /\ call' = [op |-> "placeInCircularRegion", regionBounds |-> regionBounds]
        /\ result' = placeInRegion(0, 0, args.spacing, TRUE, args.radius, FALSE, regionBounds)
    /\ UNCHANGED <<args, appVars>>

\* isInCircle on a point of the lattice over the bounding box of the bed
CallIsInCircle ==
    /\ call = NoCall
    /\ args.shape = "circle"
    /\ \E pattern \in Patterns :
        LET lattice == placeInRectangle(args.file, 2 * args.radius, 2 * args.radius,
                                        args.spacing, pattern)
        IN  \E k \in 1..Len(lattice) :
                call' = [op |-> "isInCircle", point |-> lattice[k],
                         accepted |-> isInCircle(lattice[k], args.radius)]
    /\ UNCHANGED <<args, result, appVars>>

LayerBoundsInputs ==
    {[start |-> 0, end |-> Den], [start |-> Den \div 2, end |-> Den],
     [start |-> Den \div 3, end |-> Den]}

FirstLayerBoundsInputs ==
    {[start |-> 0, end |-> Den], [start |-> 0, end |-> Den \div 2]}

\* placeInLayerWithBounds for a second group, over a first layer placed the
\* same way (its fill: auto)
CallPlaceInLayerWithBounds ==
    /\ call = NoCall
    /\ args.shape = "rectangle"
    /\ args.file = "engine"
    /\ \E fill \in Fills, bounds \in LayerBoundsInputs,
          bounds0 \in FirstLayerBoundsInputs, k \in 1..MaxSpacing :
        LET isHorizontal == args.width > args.height
            spacing0 == k * HalfInch
            layer0 == [spacing |-> spacing0,
                       positions |-> placeInLayerWithBounds(args.width, args.height, spacing0,
                                        "auto", 0, isHorizontal, <<>>, bounds0)]
        IN  /\ call' = [op |-> "placeInLayerWithBounds", method |-> fill.method,
                        value |-> fill.value, isHorizontal |-> isHorizontal,
                        bounds |-> bounds, previousLayers |-> <<layer0>>]
            /\ result' = placeInLayerWithBounds(args.width, args.height, args.spacing,
                            fill.method, fill.value, isHorizontal, <<layer0>>, bounds)
    /\ UNCHANGED <<args, appVars>>

\* placeInLayer for the second of two layers, over the first
CallPlaceInLayer ==
    /\ call = NoCall
    /\ args.shape = "rectangle"
    /\ args.file = "engine"
    /\ \E fill \in Fills, k \in 1..MaxSpacing :
        LET isHorizontal == args.width > args.height
            spacing0 == k * HalfInch
            layer0 == [spacing |-> spacing0,
                       positions |-> placeInLayer(args.width, args.height, spacing0,
                                        "auto", 0, 0, 2, isHorizontal, <<>>)]
        IN  /\ call' = [op |-> "placeInLayer", method |-> fill.method,
                        value |-> fill.value, isHorizontal |-> isHorizontal,
                        previousLayers |-> <<layer0>>]
            /\ result' = placeInLayer(args.width, args.height, args.spacing,
                            fill.method, fill.value, 1, 2, isHorizontal, <<layer0>>)
    /\ UNCHANGED <<args, appVars>>

Percentages == {-50, 0, 50, 100}

CallPlaceByPercentage ==
    /\ call = NoCall
    /\ \E pattern \in Patterns, percentage \in Percentages :
        /\ call' = [op |-> "placeByPercentage", pattern |-> pattern,
                    percentage |-> percentage]
        /\ result' = IF args.shape = "circle"
                     THEN placeByPercentage(args.file, 0, 0, args.spacing, percentage, pattern,
                                            TRUE, args.radius)
                     ELSE placeByPercentage(args.file, args.width, args.height, args.spacing,
                                            percentage, pattern, FALSE, 0)
    /\ UNCHANGED <<args, appVars>>

MaxRows == 3

\* method and value of an awareness placement
AwarenessFills ==
    {[method |-> "auto", value |-> 0]}
        \cup [method : {"count"}, value : {-1, 0, 2}]
        \cup [method : {"percentage"}, value : Percentages]
        \cup [method : {"rows"}, value : 0..MaxRows]

\* how many plants the existing group holds
ExistingCounts == {0, 2, 5}

\* existingPlantGroups: none, or one group that holds the first plants of a
\* grid of its own spacing on the same bed
ExistingPlantGroupsInputs ==
    {<<>>} \cup
    {<<[spacing |-> k * HalfInch,
        positions |-> IF args.shape = "circle"
                      THEN placeSpecificCount(args.file, 0, 0, k * HalfInch, n, "grid",
                                              TRUE, args.radius)
                      ELSE placeSpecificCount(args.file, args.width, args.height,
                                              k * HalfInch, n, "grid", FALSE, 0)]>> :
        k \in 1..MaxSpacing, n \in ExistingCounts}

\* placeWithAwareness; the rows of a circle are left out (see placeInRows)
CallPlaceWithAwareness ==
    /\ call = NoCall
    /\ \E pattern \in Patterns, fill \in AwarenessFills,
          existingPlantGroups \in ExistingPlantGroupsInputs :
        /\ args.shape = "circle" => fill.method # "rows"
        /\ call' = [op |-> "placeWithAwareness", pattern |-> pattern,
                    method |-> fill.method, value |-> fill.value,
                    existingPlantGroups |-> existingPlantGroups]
        /\ result' = IF args.shape = "circle"
                     THEN placeWithAwareness(args.file, 0, 0, args.spacing, pattern,
                                             fill.method, fill.value, TRUE, args.radius,
                                             existingPlantGroups)
                     ELSE placeWithAwareness(args.file, args.width, args.height, args.spacing,
                                             pattern, fill.method, fill.value, FALSE, 0,
                                             existingPlantGroups)
    /\ UNCHANGED <<args, appVars>>

NextPlacer ==
    \/ CallPlaceInRectangle
    \/ CallPlaceInCircle
    \/ CallPlaceSpecificCount
    \/ CallApplyFillMethod
    \/ CallPlaceInRegion
    \/ CallPlaceInLayerWithBounds
    \/ CallPlaceInLayer
    \/ CallPlaceByPercentage
    \/ CallPlaceWithAwareness
    \/ CallPlaceInCircularRegion
    \/ CallIsInCircle

SpecPlacer == InitPlacer /\ [][NextPlacer]_vars

----------------------------------------------------------------------------
(* The region boundaries of a bed with many plant groups.  i / numGroups   *)
(* is not a multiple of 1/Den for every numGroups, so here a boundary of a *)
(* bed with numGroups groups is counted in 1/(20 * numGroups): the equal   *)
(* division and the limits 0.1 and 0.9 are then whole numbers.  The bed is *)
(* reduced to its regionBoundaries, kept in result.                        *)

MaxManyGroups == 11

MaxDrags == 2

BoundaryUnit(numGroups) == 20 * numGroups

\* boundaries.push(i / numGroups) for i = 1 .. numGroups - 1
equalDivision(numGroups) ==
    [i \in 1..(numGroups - 1) |-> i * (BoundaryUnit(numGroups) \div numGroups)]

\* Math.max(0.1, Math.min(0.9, v))
clampDragged(v, numGroups) ==
    Max(BoundaryUnit(numGroups) \div 10, Min((9 * BoundaryUnit(numGroups)) \div 10, v))

\* percentageDelta of one mouse move: a twentieth or a half of the bed
ManyDragDeltas(numGroups) ==
    {-(BoundaryUnit(numGroups) \div 2), -(BoundaryUnit(numGroups) \div 20),
     BoundaryUnit(numGroups) \div 20, BoundaryUnit(numGroups) \div 2}

InitBoundaries ==
    /\ AppIdle
    /\ args \in [shape : {"bed"}, numGroups : 1..MaxManyGroups]
    /\ call = NoCall
    /\ result = <<>>

\* recalculateAllPlantPositions on a bed without regionBoundaries
CallInitializeRegionBoundaries ==
    /\ call = NoCall
    /\ call' = [op |-> "initializeRegionBoundaries", drags |-> 0]
    /\ result' = equalDivision(args.numGroups)
    /\ UNCHANGED <<args, appVars>>

\* one divider drag: the dragged boundary is the first one under the pointer
CallHandleDividerDrag ==
    /\ call # NoCall
    /\ call.drags < MaxDrags
    /\ \E dividerIndex \in 0..(Len(result) - 1), percentageDelta \in ManyDragDeltas(args.numGroups) :
        /\ \A j \in 0..(dividerIndex - 1) : result[j + 1] # result[dividerIndex + 1]
        /\ result' = SortAscending(
                        [result EXCEPT ![dividerIndex + 1] =
                            clampDragged(@ + percentageDelta, args.numGroups)])
    /\ call' = [op |-> "handleDividerDrag", drags |-> call.drags + 1]
    /\ UNCHANGED <<args, appVars>>

NextBoundaries ==
    \/ CallInitializeRegionBoundaries
    \/ CallHandleDividerDrag

SpecBoundaries == InitBoundaries /\ [][NextBoundaries]_vars

----------------------------------------------------------------------------
(* The loops of gridPattern and hexagonalPattern of the placement engine,  *)
(* one iteration per step, for a spacing of any sign.  A JavaScript number *)
(* that bounds a loop is [kind, n]: kind is "finite" (the integer n),      *)
(* "Infinity", "-Infinity" or "NaN".  call holds the running call: the     *)
(* container the loops run on, the loop counters and the place in the      *)
(* code; result holds the array positions.                                 *)

\* the loop iterations followed in one call
MaxIterations == 26

Finite(n) == [kind |-> "finite", n |-> n]

Infinity == [kind |-> "Infinity", n |-> 0]

NegInfinity == [kind |-> "-Infinity", n |-> 0]

NaN == [kind |-> "NaN", n |-> 0]

\* Math.floor(a / b) for lengths a and b of any sign
floorQuotient(a, b) ==
    IF b # 0 THEN Finite(a \div b)
    ELSE IF a > 0 THEN Infinity
    ELSE IF a < 0 THEN NegInfinity
    ELSE NaN

\* Math.floor(height / (spacing * Math.sqrt(3) / 2)) for height >= 0
floorHexQuotient(height, spacing) ==
    IF spacing > 0 THEN Finite(HexFloor(height, spacing))
    ELSE IF spacing < 0
    THEN (IF height = 0 THEN Finite(0) ELSE Finite(-(HexFloor(height, -spacing) + 1)))
    ELSE IF height > 0 THEN Infinity
    ELSE NaN

\* i < bound, as a loop condition evaluates it
LessThan(i, bound) ==
    CASE bound.kind = "finite" -> i < bound.n
      [] bound.kind = "Infinity" -> TRUE
      [] OTHER -> FALSE

\* const rows of the running pattern
loopRows ==
    IF call.pattern = "hexagonal"
    THEN floorHexQuotient(call.height, args.spacing)
    ELSE floorQuotient(call.height, args.spacing)

\* const cols of the running pattern, in row call.row
loopCols ==
    IF call.pattern = "hexagonal"
    THEN LET offset == (call.row % 2) * (args.spacing \div 2)
         IN  floorQuotient(call.width - args.spacing \div 2 - offset, args.spacing)
    ELSE floorQuotient(call.width, args.spacing)

\* the position pushed for (call.row, call.col)
loopPoint ==
    LET startX == -(call.width \div 2) + args.spacing \div 2
        startY == -(call.height \div 2) + args.spacing \div 2
    IN  IF call.pattern = "hexagonal"
        THEN Point(startX + call.col * args.spacing + (call.row % 2) * (args.spacing \div 2),
                   startY, call.row * (args.spacing \div 2))
        ELSE Point(startX + call.col * args.spacing, startY + call.row * args.spacing, 0)

LoopSizes == {0, HalfInch, 2 * HalfInch}

LoopInputs ==
    [shape : {"rectangle"}, width : LoopSizes, height : LoopSizes,
     spacing : {-HalfInch, 0, HalfInch}]
    \cup
    [shape : {"circle"}, radius : LoopSizes, spacing : {-HalfInch, 0, HalfInch}]

InitLoop ==
    /\ AppIdle
    /\ args \in LoopInputs
    /\ call = NoCall
    /\ result = <<>>

LoopStart(op, pattern, width, height) ==
    [op |-> op, pattern |-> pattern, width |-> width, height |-> height,
     pc |-> "row", row |-> 0, col |-> 0, iterations |-> 0]

EnterGridPattern ==
    /\ call = NoCall
    /\ args.shape = "rectangle"
    /\ call' = LoopStart("gridPattern", "grid", args.width, args.height)
    /\ UNCHANGED <<args, result, appVars>>

EnterHexagonalPattern ==
    /\ call = NoCall
    /\ args.shape = "rectangle"
    /\ call' = LoopStart("hexagonalPattern", "hexagonal", args.width, args.height)
    /\ UNCHANGED <<args, result, appVars>>

EnterPlaceInRectangle ==
    /\ call = NoCall
    /\ args.shape = "rectangle"
    /\ \E pattern \in Patterns :
        call' = LoopStart("placeInRectangle", pattern, args.width, args.height)
    /\ UNCHANGED <<args, result, appVars>>

EnterPlaceInCircle ==
    /\ call = NoCall
    /\ args.shape = "circle"
    /\ \E pattern \in Patterns :
        call' = LoopStart("placeInCircle", pattern, args.radius * 2, args.radius * 2)
    /\ UNCHANGED <<args, result, appVars>>

\* for (let row = 0; row < rows; row++): the test of the outer loop
LoopRowTest ==
    /\ call # NoCall
    /\ call.pc = "row"
    /\ call.iterations < MaxIterations
    /\ call' = [call EXCEPT !.pc = IF LessThan(call.row, loopRows) THEN "col" ELSE "return",
                            !.col = 0,
                            !.iterations = @ + 1]
    /\ UNCHANGED <<args, result, appVars>>

\* for (let col = 0; col < cols; col++) positions.push(...): one test of the
\* inner loop, with the body when it passes and row++ when it fails
LoopColTest ==
    /\ call # NoCall
    /\ call.pc = "col"
    /\ call.iterations < MaxIterations
    /\ IF LessThan(call.col, loopCols)
       THEN /\ result' = Append(result, loopPoint)
            /\ call' = [call EXCEPT !.col = @ + 1, !.iterations = @ + 1]
       ELSE /\ result' = result
            /\ call' = [call EXCEPT !.row = @ + 1, !.pc = "row", !.iterations = @ + 1]
    /\ UNCHANGED <<args, appVars>>

\* return positions, through the filter of placeInCircle
LoopReturn ==
    /\ call # NoCall
    /\ call.pc = "return"
    /\ result' = IF call.op = "placeInCircle"
                 THEN LET keep(pos) == withinCircleMargin(pos, args.radius, args.spacing)
                      IN  SelectSeq(result, keep)
                 ELSE result
    /\ call' = [call EXCEPT !.pc = "done"]
    /\ UNCHANGED <<args, appVars>>

NextLoop ==
    \/ EnterGridPattern
    \/ EnterHexagonalPattern
    \/ EnterPlaceInRectangle
    \/ EnterPlaceInCircle
    \/ LoopRowTest
    \/ LoopColTest
    \/ LoopReturn

SpecLoop == InitLoop /\ [][NextLoop]_vars

----------------------------------------------------------------------------
(* Claims *)

\* a is a subsequence of b (same relative order); b has no repeated element
IsSubsequence(a, b) ==
    /\ \A i, j \in 1..Len(b) : b[i] = b[j] => i = j
    /\ \A i \in 1..Len(a) : \E k \in 1..Len(b) : b[k] = a[i]
    /\ \A i, j \in 1..Len(a) :
        j = i + 1 => (CHOOSE k \in 1..Len(b) : b[k] = a[i]) < (CHOOSE k \in 1..Len(b) : b[k] = a[j])

\* C1: every point returned by placeInRectangle, for either pattern, has
\* |x| <= width/2 and |y| <= height/2.  With y = (p.y + p.yi*sqrt(3))/Scale,
\* |y| <= height/2 is stated through the square of its sqrt(3) part.
C1_RectangleContainment ==
    call.op = "placeInRectangle" =>
        \A k \in 1..Len(result) :
            LET p == result[k]
                h == args.height \div 2
            IN  /\ -(args.width \div 2) <= p.x /\ p.x <= args.width \div 2
                /\ p.yi >= 0
                /\ p.y <= h /\ 3 * p.yi * p.yi <= (h - p.y) * (h - p.y)
                /\ p.y >= -h \/ 3 * p.yi * p.yi >= (h + p.y) * (h + p.y)

C1_Witness ==
    /\ call.op = "placeInRectangle"
    /\ call.pattern = "hexagonal"
    /\ Len(result) >= 6
    /\ \E k \in 1..Len(result) : result[k].yi > 0

\* C2: every point returned by placeInCircle is at distance at most
\* radius - spacing/2 from the origin, and the result is a subsequence of
\* the lattice generated over the diameter x diameter bounding box.
C2_CircleContainment ==
    call.op = "placeInCircle" =>
        LET m == args.radius - args.spacing \div 2
            lattice == placeInRectangle(args.file, 2 * args.radius, 2 * args.radius,
                                        args.spacing, call.pattern)
        IN  /\ IsSubsequence(result, lattice)
            /\ \A k \in 1..Len(result) :
                LET p == result[k]
                IN  /\ m >= 0
                    /\ SignSqrt3(p.x * p.x + p.y * p.y + 3 * p.yi * p.yi - m * m,
                                 2 * p.y * p.yi) <= 0

C2_Witness ==
    /\ call.op = "placeInCircle"
    /\ Len(result) >= 4
    /\ Len(result) < Len(placeInRectangle(args.file, 2 * args.radius, 2 * args.radius,
                                          args.spacing, call.pattern))

\* C3: in region mode on a rectangular bed every point of a group lies in
\* the group's own strip: on a horizontal bed y is within
\* [-height/2 + start*height, -height/2 + end*height] and |x| <= width/2; on
\* a vertical bed x is within [-width/2 + start*width, -width/2 + end*width]
\* and |y| <= height/2.
C3_RegionStripContainment ==
    call.op = "placeInRegion" =>
        \A k \in 1..Len(result) :
            LET p == result[k]
                w == args.width
                h == args.height
                lo == call.regionBounds.start
                hi == call.regionBounds.end
            IN  IF call.isHorizontal
                THEN /\ SignSqrt3(Den * (p.y + h \div 2) - lo * h, Den * p.yi) >= 0
                     /\ SignSqrt3(Den * (p.y + h \div 2) - hi * h, Den * p.yi) <= 0
                     /\ 2 * Abs(p.x) <= w
                ELSE /\ Den * (p.x + w \div 2) >= lo * w
                     /\ Den * (p.x + w \div 2) <= hi * w
                     /\ SignSqrt3(2 * p.y - h, 2 * p.yi) <= 0
                     /\ SignSqrt3(2 * p.y + h, 2 * p.yi) >= 0

C3_Witness ==
    /\ call.op = "placeInRegion"
    /\ call.regionBounds = [start |-> Den \div 2, end |-> Den]
    /\ Len(result) >= 4
    /\ \E k \in 1..Len(result) : result[k].yi # 0

\* C5: in the layered placement every returned point of the new layer is at
\* distance >= max(G1.spacing, G2.spacing) from every point of every earlier
\* layer G1, for every fill method.
C5_InterLayerSpacing ==
    call.op \in {"placeInLayerWithBounds", "placeInLayer"} =>
        \A l \in 1..Len(call.previousLayers) :
            \A j \in 1..Len(call.previousLayers[l].positions), k \in 1..Len(result) :
                LET g == call.previousLayers[l].positions[j]
                    p == result[k]
                    d == IF call.previousLayers[l].spacing > args.spacing
                         THEN call.previousLayers[l].spacing ELSE args.spacing
                IN  SignSqrt3((p.x - g.x) * (p.x - g.x) + (p.y - g.y) * (p.y - g.y)
                                + 3 * (p.yi - g.yi) * (p.yi - g.yi) - d * d,
                              2 * (p.y - g.y) * (p.yi - g.yi)) >= 0

\* a new layer that lost candidates to the filter and kept others
C5_Witness ==
    /\ call.op = "placeInLayerWithBounds"
    /\ call.method = "auto"
    /\ Len(result) >= 2
    /\ Len(call.previousLayers[1].positions) >= 2
    /\ Len(result) < Len(placeInLayerWithBounds(args.width, args.height, args.spacing,
                            "auto", 0, call.isHorizontal, <<>>, call.bounds))

\* C6: for identical width, height and spacing, the hexagonal pattern returns
\* at least as many points as the grid pattern whenever
\* height >= spacing*sqrt(3), for every width.
C6_HexAtLeastGrid ==
    (/\ call.op = "placeInRectangle"
     /\ call.pattern = "hexagonal"
     /\ CmpSqrt3(args.height, args.spacing) >= 0)
        => Len(result) >= Len(gridPatternOf(args.file, args.width, args.height, args.spacing))

\* C7: placeSpecificCount, and the count branch of applyFillMethod, return
\* exactly the first min(n, M) of the M candidates, in the generator's order.
C7_CountPrefix ==
    /\ (call.op = "placeSpecificCount" /\ call.count >= 0) =>
        LET full == IF args.shape = "circle"
                    THEN placeInCircle(args.file, args.radius, args.spacing, call.pattern)
                    ELSE placeInRectangle(args.file, args.width, args.height, args.spacing,
                                          call.pattern)
            n == IF call.count < Len(full) THEN call.count ELSE Len(full)
        IN  /\ Len(result) = n
            /\ \A k \in 1..n : result[k] = full[k]
    /\ (call.op = "applyFillMethod" /\ call.method = "count" /\ call.value >= 0) =>
        LET full == placeInRectangle(args.file, args.width, args.height, args.spacing,
                                     call.pattern)
            n == IF call.value < Len(full) THEN call.value ELSE Len(full)
        IN  /\ Len(result) = n
            /\ \A k \in 1..n : result[k] = full[k]

C7_Witness ==
    /\ call.op = "placeSpecificCount"
    /\ call.count = 3
    /\ Len(result) = 3
    /\ Len(placeInRectangle(args.file, args.width, args.height, args.spacing, call.pattern)) > 3

\* the handlers that end with recalculateAllPlantPositions
RecalculatingHandlers ==
    {"saveAddPlantToBed", "removePlantGroup", "reorderPlantGroup", "updatePlantQuantity",
     "handleDividerDrag", "bedWidthInput", "bedHeightInput", "bedRadiusInput"}

NumGroups == Len(SB.plantGroups)

\* C4: for a bed with N >= 1 groups and N-1 boundaries the region bounds of
\* the indices 0..N-1 partition [0,1]: region 0 starts at 0, region N-1 ends
\* at 1, the end of region i is the start of region i+1, and no region ends
\* before it starts; a single group gets {0,1}.
C4_RegionsPartition ==
    (selectedBed # 0 /\ NumGroups >= 1 /\ Len(SB.regionBoundaries) = NumGroups - 1) =>
        /\ getRegionBounds(SB, 0).start = 0
        /\ getRegionBounds(SB, NumGroups - 1).end = Den
        /\ \A i \in 0..(NumGroups - 2) :
            getRegionBounds(SB, i).end = getRegionBounds(SB, i + 1).start
        /\ \A i \in 0..(NumGroups - 1) :
            getRegionBounds(SB, i).start <= getRegionBounds(SB, i).end
        /\ NumGroups = 1 => getRegionBounds(SB, 0) = [start |-> 0, end |-> Den]

\* three groups whose boundaries a drag has moved off the equal division
C4_Witness ==
    /\ selectedBed # 0
    /\ NumGroups = 3
    /\ lastOp = "handleDividerDrag"
    /\ SB.regionBoundaries # <<Den \div 3, (2 * Den) \div 3>>
    /\ SB.regionBoundaries[1] < SB.regionBoundaries[2]

\* C8: recalculateAllPlantPositions run again on its own result, with
\* geometry, spacings, boundaries and order unchanged, leaves every group's
\* maxQuantity, quantity and positions as they are.
C8_RecalculateIdempotent ==
    (selectedBed # 0 /\ lastOp \in RecalculatingHandlers) =>
        recalculateAllPlantPositions(SB).plantGroups = SB.plantGroups

\* a group reduced below its maximum beside another group
C8_Witness ==
    /\ selectedBed # 0
    /\ lastOp = "updatePlantQuantity"
    /\ NumGroups >= 2
    /\ \E k \in 1..NumGroups :
        /\ SB.plantGroups[k].positions # <<>>
        /\ Len(SB.plantGroups[k].positions) < SB.plantGroups[k].maxQuantity

\* C9: after any sequence of add, edit, remove, reorder, set-quantity,
\* divider-drag and sidebar geometry edits, every group retains at most
\* maxQuantity positions, and maxQuantity is the number of points
\* placeInRegion produces in the group's region.
C9_PositionsWithinMaxQuantity ==
    selectedBed # 0 =>
        \A k \in 1..NumGroups :
            LET group == SB.plantGroups[k]
            IN  /\ Len(group.positions) <= group.maxQuantity
                /\ group.maxQuantity =
                      Len(placeInRegion(SB.width, SB.height, group.spacing,
                                        SB.type = "circle", SB.radius,
                                        SB.width > SB.height, getRegionBounds(SB, k - 1)))

\* a geometry edit left a group wanting more plants than now fit
C9_Witness ==
    /\ selectedBed # 0
    /\ lastOp \in {"bedWidthInput", "bedHeightInput", "bedRadiusInput"}
    /\ \E k \in 1..NumGroups :
        /\ SB.plantGroups[k].quantity > SB.plantGroups[k].maxQuantity
        /\ Len(SB.plantGroups[k].positions) = SB.plantGroups[k].maxQuantity
        /\ SB.plantGroups[k].maxQuantity > 0

\* C10: after any sequence of add, remove, reorder and divider-drag
\* operations regionBoundaries has length groupCount - 1 and is strictly
\* ascending, so that no group owns a zero-width region.
C10_BoundariesStrictlyAscending ==
    (selectedBed # 0 /\ NumGroups >= 1 /\ SB.hasRegionBoundaries) =>
        /\ Len(SB.regionBoundaries) = NumGroups - 1
        /\ \A i \in 1..(Len(SB.regionBoundaries) - 1) :
            SB.regionBoundaries[i] < SB.regionBoundaries[i + 1]

\* C11: in every reachable state every region boundary of a bed lies in
\* [0.1, 0.9], whether created by the equal division of
\* initializeRegionBoundaries, for any number of groups, or moved by a
\* divider drag.
C11_BoundariesWithinLimits ==
    call # NoCall =>
        \A i \in 1..Len(result) :
            /\ 10 * result[i] >= BoundaryUnit(args.numGroups)
            /\ 10 * result[i] <= 9 * BoundaryUnit(args.numGroups)

\* C12: after updatePlantQuantity(i, q) group i retains exactly
\* clamp(q, 0, maxQuantity) positions, a prefix of its full-density
\* sequence; a requested quantity of 0 leaves the group with no positions.
C12_QuantityClamped ==
    [][\A index \in 0..(MaxGroups - 1), newQuantity \in Quantities :
        (/\ Idle
         /\ index < NumGroups
         /\ lastOp' = "updatePlantQuantity"
         /\ beds' = [beds EXCEPT ![selectedBed] =
                        recalculateAllPlantPositions(
                            [SB EXCEPT !.plantGroups[index + 1].quantity = newQuantity])])
        => LET bed == beds'[selectedBed]
               group == bed.plantGroups[index + 1]
               full == placeInRegion(bed.width, bed.height, group.spacing,
                                     bed.type = "circle", bed.radius,
                                     bed.width > bed.height, getRegionBounds(bed, index))
               kept == Max(0, Min(newQuantity, group.maxQuantity))
           IN  /\ Len(group.positions) = kept
               /\ group.positions = SubSeq(full, 1, kept)]_vars

\* C13: whenever a completed user operation changes the selected bed's
\* width, height or radius, through the sidebar inputs or through a
\* resize-handle drag, every group's maxQuantity and positions are recomputed
\* for the new geometry, so each stored position lies inside the bed's
\* current bounds.
C13_GeometryChangeRecomputes ==
    (selectedBed # 0 /\ ~isResizing) =>
        \A k \in 1..NumGroups :
            LET group == SB.plantGroups[k]
            IN  /\ group.maxQuantity =
                      Len(placeInRegion(SB.width, SB.height, group.spacing,
                                        SB.type = "circle", SB.radius,
                                        SB.width > SB.height, getRegionBounds(SB, k - 1)))
                /\ \A j \in 1..Len(group.positions) :
                      IF SB.type = "circle"
                      THEN group.positions[j].rn <= SB.radius * group.positions[j].rd
                      ELSE isInRectangle(group.positions[j], SB.width, SB.height)

\* the existing plants a placeWithAwareness call was given: <<spacing, point>>
ExistingPlants ==
    UNION {{<<call.existingPlantGroups[g].spacing, call.existingPlantGroups[g].positions[k]>> :
                k \in 1..Len(call.existingPlantGroups[g].positions)} :
            g \in 1..Len(call.existingPlantGroups)}

\* p is at least (a + b)/2 from q: the squared distance, a number
\* u + v*sqrt(3), is compared with ((a + b)/2)^2
FarEnough(p, q, a, b) ==
    SignSqrt3((p.x - q.x) * (p.x - q.x) + (p.y - q.y) * (p.y - q.y)
                + 3 * (p.yi - q.yi) * (p.yi - q.yi) - ((a + b) \div 2) * ((a + b) \div 2),
              2 * (p.y - q.y) * (p.yi - q.yi)) >= 0

\* the candidates placeWithAwareness starts from
AwarenessCandidates ==
    IF call.method = "rows"
    THEN placeInRows(args.file, args.width, args.height, args.spacing, call.value, call.pattern)
    ELSE IF args.shape = "circle"
    THEN placeInCircle(args.file, args.radius, args.spacing, call.pattern)
    ELSE placeInRectangle(args.file, args.width, args.height, args.spacing, call.pattern)

\* C14: for every fill method every point returned by placeWithAwareness is
\* at distance >= (newSpacing + g.spacing)/2 from every existing position of
\* every existing group g, and filterAvailablePositions keeps exactly the
\* candidates that satisfy this, in their order.
C14_AwarenessDistance ==
    call.op = "placeWithAwareness" =>
        LET free(p) == \A e \in ExistingPlants : FarEnough(p, e[2], args.spacing, e[1])
            kept == filterAvailablePositions(AwarenessCandidates, call.existingPlantGroups,
                                             args.spacing)
        IN  /\ \A k \in 1..Len(result) : free(result[k])
            /\ kept = SelectSeq(AwarenessCandidates, free)
            /\ call.method = "rows" => result = kept

\* the filter removed some candidates and kept others
C14_Witness ==
    /\ call.op = "placeWithAwareness"
    /\ call.method = "rows"
    /\ Len(result) >= 2
    /\ Len(result) < Len(AwarenessCandidates)

\* the strip candidates of a layered call, before the inter-layer filter
LayerCandidates ==
    placeInLayerWithBounds(args.width, args.height, args.spacing, "auto", 0,
                           call.isHorizontal, <<>>,
                           IF call.op = "placeInLayer"
                           THEN [start |-> Den \div 2, end |-> Den] ELSE call.bounds)

\* C15: for percentage(p) the number of retained points is derived from the
\* candidate count before conflict filtering, floor(len * p/100), in every
\* path that applies the percentage method: placeByPercentage,
\* placeWithAwareness and the layered path; where the conflict filter leaves
\* fewer points than that, all of them are retained.
C15_PercentageOfCandidates ==
    /\ (call.op = "placeByPercentage" /\ call.percentage >= 0) =>
        Len(result) =
            Floor(Len(IF args.shape = "circle"
                      THEN placeInCircle(args.file, args.radius, args.spacing, call.pattern)
                      ELSE placeInRectangle(args.file, args.width, args.height,
                                            args.spacing, call.pattern)) * call.percentage, 100)
    /\ (call.op = "placeWithAwareness" /\ call.method = "percentage" /\ call.value >= 0) =>
        Len(result) =
            Min(Floor(Len(AwarenessCandidates) * call.value, 100),
                Len(filterAvailablePositions(AwarenessCandidates, call.existingPlantGroups,
                                             args.spacing)))
    /\ (call.op \in {"placeInLayerWithBounds", "placeInLayer"} /\ call.method = "percentage") =>
        Len(result) =
            Min(Floor(Len(LayerCandidates) * call.value, 100),
                Len(filterByInterLayerSpacing(LayerCandidates, args.spacing,
                                              call.previousLayers)))

\* remainingCapacity of a placeWithAwareness call
RemainingCapacity ==
    calculateBedCapacity(args.file, IF args.shape = "circle" THEN 0 ELSE args.width,
                         IF args.shape = "circle" THEN 0 ELSE args.height,
                         args.spacing, call.pattern, args.shape = "circle",
                         IF args.shape = "circle" THEN args.radius ELSE 0)
        - calculateUsedSpace(call.existingPlantGroups)

\* C16: placeWithAwareness with method auto never returns more points than
\* remainingCapacity = calculateBedCapacity(...) - calculateUsedSpace(...);
\* when remainingCapacity <= 0 it returns no points.
C16_AutoWithinRemainingCapacity ==
    (call.op = "placeWithAwareness" /\ call.method = "auto" /\ args.file = "engine") =>
        Len(result) <= Max(0, RemainingCapacity)

\* C18: an out-of-range fill value degrades to an empty result: for a
\* negative count or a negative percentage placeSpecificCount,
\* placeByPercentage, applyFillMethod and placeWithAwareness return an empty
\* sequence.
C18_NegativeFillIsEmpty ==
    /\ (call.op = "placeSpecificCount" /\ call.count < 0) => result = <<>>
    /\ (call.op = "placeByPercentage" /\ call.percentage < 0) => result = <<>>
    /\ (/\ call.op \in {"applyFillMethod", "placeWithAwareness"}
        /\ call.method \in {"count", "percentage"}
        /\ call.value < 0) => result = <<>>

\* C19: in region mode on a circular bed every point of placeInCircularRegion
\* lies at radial distance at most radius - spacing/2 from the origin, also
\* when the ring is narrower than the spacing.
C19_CircularRegionWithinMargin ==
    call.op = "placeInCircularRegion" =>
        \A k \in 1..Len(result) :
            2 * result[k].rn <= result[k].rd * (2 * args.radius - args.spacing)

\* C20: within one group placed in region mode any two distinct positions are
\* at least the group's spacing apart: in a rectangular strip whichever of the
\* grid and hexagonal candidates is kept, and in a circular annulus between
\* points of different sub-rings (compared where they lie on the same ray).
C20_RegionSpacingWithinGroup ==
    /\ call.op = "placeInRegion" =>
        \A i, j \in 1..Len(result) :
            i < j => FarEnough(result[i], result[j], args.spacing, args.spacing)
    /\ call.op = "placeInCircularRegion" =>
        \A i, j \in 1..Len(result) :
            LET p == result[i]
                q == result[j]
            IN  (p.rn * q.rd # q.rn * p.rd /\ p.i * q.n = q.i * p.n) =>
                    Abs(p.rn * q.rd - q.rn * p.rd) >= args.spacing * p.rd * q.rd

\* C17: for every spacing <= 0 and any container size gridPattern,
\* hexagonalPattern, placeInRectangle and placeInCircle terminate and return
\* an empty sequence: their loops push no position, and a running loop is
\* bounded by finite rows and cols.
C17_NonPositiveSpacingIsEmpty ==
    (call # NoCall /\ args.spacing <= 0) =>
        /\ result = <<>>
        /\ call.pc = "row" => loopRows.kind # "Infinity"
        /\ call.pc = "col" => loopCols.kind # "Infinity"

\* C23: gridPattern returns exactly floor(width/spacing) * floor(height/spacing)
\* points, emitted row-major: the rows in ascending y from the most negative
\* y, and within a row the columns in ascending x.
C23_GridRowMajor ==
    (call.op = "placeInRectangle" /\ call.pattern = "grid") =>
        LET cols == args.width \div args.spacing
            rows == args.height \div args.spacing
        IN  /\ Len(result) = cols * rows
            /\ \A k \in 1..Len(result) :
                /\ result[k].yi = 0
                /\ k > 1 =>
                    IF (k - 1) % cols # 0
                    THEN /\ result[k].y = result[k - 1].y
                         /\ result[k].x > result[k - 1].x
                    ELSE /\ result[k].y > result[k - 1].y
                         /\ result[k].x = result[1].x

C23_Witness ==
    /\ call.op = "placeInRectangle"
    /\ call.pattern = "grid"
    /\ args.width \div args.spacing = 3
    /\ args.height \div args.spacing = 2
    /\ args.width % args.spacing # 0
    /\ Len(result) = 6

\* C24: the grid lattice is centered on both axes of the region it fills, for
\* every width, height and spacing: the x-coordinates of the output are
\* symmetric about 0 and so are the y-coordinates; in a strip the lattice is
\* centered on the strip's own midline (and on the bed's along the other
\* axis).
C24_GridCentered ==
    /\ (call.op = "placeInRectangle" /\ call.pattern = "grid") =>
        \A k \in 1..Len(result) :
            /\ \E j \in 1..Len(result) : result[j].x = -result[k].x
            /\ \E j \in 1..Len(result) : result[j].y = -result[k].y
    /\ (call.op = "placeInRegion" /\ \A k \in 1..Len(result) : result[k].yi = 0) =>
        LET rb == call.regionBounds
            length == IF call.isHorizontal THEN args.height ELSE args.width
            stripStart == -(length \div 2) + Times(length, rb.start)
            stripEnd == stripStart + Times(length, rb.end - rb.start)
        IN  \A k \in 1..Len(result) :
                IF call.isHorizontal
                THEN /\ \E j \in 1..Len(result) : result[j].x = -result[k].x
                     /\ \E j \in 1..Len(result) :
                            result[j].y + result[k].y = stripStart + stripEnd
                ELSE /\ \E j \in 1..Len(result) :
                            result[j].x + result[k].x = stripStart + stripEnd
                     /\ \E j \in 1..Len(result) : result[j].y = -result[k].y

\* C25: in every hexagonal output (hexagonalPattern and the strip variants)
\* each odd-indexed row is displaced by exactly spacing/2 against the
\* even-indexed rows: for two points in rows of different parity the x
\* coordinates differ by spacing/2 modulo spacing.  Rows are spacing*sqrt(3)/2
\* apart, so the row distance of two points is the difference of their yi in
\* units of spacing/2.
C25_HexOddRowsHalfSpacing ==
    (\/ call.op = "placeInRectangle" /\ call.pattern = "hexagonal"
     \/ call.op = "placeInRegion") =>
        \A i, j \in 1..Len(result) :
            LET p == result[i]
                q == result[j]
                rowDistance == (p.yi - q.yi) \div (args.spacing \div 2)
            IN  rowDistance % 2 = 1 =>
                    (p.x - q.x - args.spacing \div 2) % args.spacing = 0

\* C26: with fill method rows and value n > 0 on a vertical bed the bound n
\* is applied to the column count of every generated row of the strip, for
\* the grid and the hexagonal candidates alike: no row (the points of one y)
\* of the layer's result holds more than n points.
C26_RowsBoundEveryRow ==
    (/\ call.op \in {"placeInLayerWithBounds", "placeInLayer"}
     /\ call.method = "rows"
     /\ call.value > 0
     /\ ~call.isHorizontal) =>
        \A k \in 1..Len(result) :
            Cardinality({j \in 1..Len(result) :
                            result[j].y = result[k].y /\ result[j].yi = result[k].yi})
                <= call.value

\* C27: the circle containment predicate of the engine is true iff
\* distance(p, origin) <= radius - spacing/2, the margin placeInCircle clips
\* the lattice with: a point the predicate accepts is one placeInCircle keeps.
C27_InCircleHalfSpacingMargin ==
    call.op = "isInCircle" =>
        (call.accepted <=>
            CmpDistance(call.point, Origin, args.radius - args.spacing \div 2) <= 0)

\* C22: region-mode recomputation applies no cross-group filtering: when a
\* handler changes the spacing (edit) or the quantity (slider) of one group
\* and recalculates, every other group of the bed, whose own spacing and
\* quantity are as before, keeps its maxQuantity and its positions.
C22_NoCrossGroupFiltering ==
    [][(/\ selectedBed # 0
        /\ lastOp' \in {"saveAddPlantToBed", "updatePlantQuantity"}
        /\ Len(beds'[selectedBed].plantGroups) = NumGroups)
       => \A k \in 1..NumGroups :
            LET before == SB.plantGroups[k]
                after == beds'[selectedBed].plantGroups[k]
            IN  (after.spacing = before.spacing /\ after.quantity = before.quantity)
                    => /\ after.maxQuantity = before.maxQuantity
                       /\ after.positions = before.positions]_vars

\* a group reduced to two plants beside a full group of another spacing
C22_Witness ==
    /\ selectedBed # 0
    /\ lastOp = "updatePlantQuantity"
    /\ NumGroups >= 2
    /\ \E j, k \in 1..NumGroups :
        /\ SB.plantGroups[j].spacing # SB.plantGroups[k].spacing
        /\ Len(SB.plantGroups[j].positions) = 2
        /\ SB.plantGroups[j].maxQuantity > 2
        /\ Len(SB.plantGroups[k].positions) = SB.plantGroups[k].maxQuantity
        /\ SB.plantGroups[k].maxQuantity > 2

\* C29: a divider drag changes only the dragged boundary: every other
\* boundary keeps its value at its index, however far the divider is
\* dragged.
C29_DragMovesOneBoundary ==
    [][(/\ selectedBed # 0
        /\ isDraggingDivider
        /\ lastOp' = "handleDividerDrag")
       => \A i \in 1..Len(SB.regionBoundaries) :
            i # draggedDividerIndex + 1
                => beds'[selectedBed].regionBoundaries[i] = SB.regionBoundaries[i]]_vars

\* C30: whenever the number of plant groups of a bed changes (a group is
\* added or removed) the recalculation replaces the boundary set by the equal
\* division k/N for k = 1..N-1, whatever the user had adjusted; reordering
\* groups leaves the boundary values unchanged.
C30_GroupCountResetsBoundaries ==
    [][(selectedBed # 0 /\ lastOp' \in RecalculatingHandlers)
       => LET after == beds'[selectedBed]
              N == Len(after.plantGroups)
          IN  /\ N # NumGroups =>
                    /\ after.hasRegionBoundaries
                    /\ Len(after.regionBoundaries) = Max(N - 1, 0)
                    /\ \A k \in 1..(N - 1) : N * after.regionBoundaries[k] = k * Den
              /\ lastOp' = "reorderPlantGroup" =>
                    after.regionBoundaries = SB.regionBoundaries]_vars

\* a group was added to a bed whose single divider the user had dragged
C30_Witness ==
    /\ selectedBed # 0
    /\ lastOp = "saveAddPlantToBed"
    /\ NumGroups = 3
    /\ steps >= 5
    /\ SB.regionBoundaries = <<Den \div 3, (2 * Den) \div 3>>

\* C21: the plant count displayed by updateFillPreview for a group being
\* added or edited equals the number of positions the group holds after
\* saveAddPlantToBed is completed with the same spacing, for a new group and
\* for an edited group, also when the bed has user-adjusted region boundaries
\* or the group a reduced quantity.
C21_PreviewMatchesSave ==
    [][(selectedBed # 0 /\ lastOp' = "saveAddPlantToBed")
       => LET index == IF editingPlantIndex # -1 THEN editingPlantIndex ELSE NumGroups
              saved == beds'[selectedBed].plantGroups[index + 1]
          IN  updateFillPreview(SB, editingPlantIndex, saved.spacing)
                = Len(saved.positions)]_vars

\* C28: in every reachable state bedDetailMode = true implies that a bed is
\* selected (selectedBed is not null and is an element of beds), after any
\* sequence of select, double-click, add-plant, delete-bed, clear-all and
\* exit-detail operations.
C28_DetailModeHasSelectedBed ==
    bedDetailMode => (selectedBed # 0 /\ selectedBed \in 1..Len(beds))

====
